---- MODULE Spec2Model ----
(***************************************************************************)
(* mimicss: CSS class name minifier.                                       *)
(*                                                                         *)
(* The repository holds two ClassMinifier implementations: the one of      *)
(* src/core.ts (names over LEADING_CHARS/ALL_CHARS, transformJS that       *)
(* regenerates the program from the syntax tree) and the one of            *)
(* src/vite-plugin.ts (names over BASE54, dynamic prefixes, transformJS    *)
(* that overwrites literal ranges in place).  The variable impl selects    *)
(* the implementation an instance is built from.                           *)
(*                                                                         *)
(* Strings are sequences of one-character strings, so that splitting,      *)
(* trimming, prefix tests, character frequencies and name generation are   *)
(* computed as the code computes them.                                     *)
(***************************************************************************)
EXTENDS Integers, Sequences, FiniteSets, TLC

VARIABLES
    impl,             \* "core" (src/core.ts) or "plugin" (src/vite-plugin.ts)
    excludePatterns,  \* options.exclude, fixed by the constructor
    currentIndex,     \* allocation cursor
    classMap,         \* original class token -> rewritten class token
    nameGenerator,    \* NameGenerator fields: alphabet order(s) and frequency
    classUsageCount,  \* class token -> occurrences seen by analyzeJS
    dynamicPrefixes,  \* tokens ending in - or : seen before an interpolation
    call,             \* the last call made on the instance: op, arg, ret
    last,             \* the last analyzeJS or extractFromCSS call: op, arg
    prev,             \* the analyzeJS or extractFromCSS call before that one
                      \* (op, arg) and the classMap it left
    extractCalls,     \* number of extractFromCSS calls made
    analyzeCalls,     \* number of analyzeJS calls made
    run               \* the generateBundle run that drives the instance, if any

vars == <<impl, excludePatterns, currentIndex, classMap, nameGenerator,
          classUsageCount, dynamicPrefixes, call, last, prev,
          extractCalls, analyzeCalls, run>>

\* Bounds of the model: calls that grow the state.
MaxExtract == 2
MaxAnalyze == 2

----------------------------------------------------------------------------
\* Generic helpers

Max(S) == CHOOSE x \in S : \A y \in S : y <= x

Range(seq) == {seq[i] : i \in 1..Len(seq)}

\* The value a Map lookup yields, with a default for a missing key
\* (Map.get(k) ?? d)
Get(map, k, d) == IF k \in DOMAIN map THEN map[k] ELSE d

\* Map.set(k, v)
Set(map, k, v) == [x \in (DOMAIN map) \cup {k} |-> IF x = k THEN v ELSE map[x]]

EmptyMap == [x \in {} |-> 0]

\* Array.prototype.sort with the comparator (a, b) => key(b) - key(a):
\* descending by key, stable (elements of equal key keep their order).
RECURSIVE SortBuckets(_, _, _)
SortBuckets(seq, key(_), keys) ==
    IF keys = {} THEN <<>>
    ELSE LET m == Max(keys)
         IN SelectSeq(seq, LAMBDA x : key(x) = m) \o SortBuckets(seq, key, keys \ {m})

SortDescending(seq, key(_)) ==
    SortBuckets(seq, key, {key(seq[i]) : i \in 1..Len(seq)})

----------------------------------------------------------------------------
\* Alphabets

LEADING_CHARS ==
    << "a", "b", "c", "d", "e", "f", "g", "h", "i", "j", "k", "l", "m",
       "n", "o", "p", "q", "r", "s", "t", "u", "v", "w", "x", "y", "z",
       "A", "B", "C", "D", "E", "F", "G", "H", "I", "J", "K", "L", "M",
       "N", "O", "P", "Q", "R", "S", "T", "U", "V", "W", "X", "Y", "Z",
       "_" >>

FOLLOWING_ONLY_CHARS == << "0", "1", "2", "3", "4", "5", "6", "7", "8", "9", "-" >>

ALL_CHARS == LEADING_CHARS \o FOLLOWING_ONLY_CHARS

BASE54 ==
    << "e", "t", "n", "r", "i", "s", "o", "u", "a", "c", "l", "d", "h",
       "m", "p", "g", "f", "b", "w", "y", "v", "k", "x", "j", "q", "z",
       "E", "T", "N", "R", "I", "S", "O", "U", "A", "C", "L", "D", "H",
       "M", "P", "G", "F", "B", "W", "Y", "V", "K", "X", "J", "Q", "Z" >>

\* The alphabet whose characters the frequency table counts
CountedChars == IF impl = "core" THEN ALL_CHARS ELSE BASE54

----------------------------------------------------------------------------
\* String helpers (strings are sequences of one-character strings)

WhiteSpace == {" ", "\n", "\t"}

startsWith(str, prefix) ==
    /\ Len(prefix) <= Len(str)
    /\ SubSeq(str, 1, Len(prefix)) = prefix

endsWith(str, ch) == Len(str) > 0 /\ str[Len(str)] = ch

\* str.trim().split(/\s+/).filter((c) => c.length > 0): the maximal runs of
\* non-whitespace characters, in order
RECURSIVE splitFrom(_, _, _)
splitFrom(str, i, cur) ==
    IF i > Len(str) THEN (IF cur = <<>> THEN <<>> ELSE <<cur>>)
    ELSE IF str[i] \in WhiteSpace
         THEN (IF cur = <<>> THEN <<>> ELSE <<cur>>) \o splitFrom(str, i + 1, <<>>)
         ELSE splitFrom(str, i + 1, Append(cur, str[i]))

splitClasses(str) == splitFrom(str, 1, <<>>)

\* Array.prototype.join(' ')
RECURSIVE joinSpace(_)
joinSpace(parts) ==
    IF parts = <<>> THEN <<>>
    ELSE IF Len(parts) = 1 THEN parts[1]
    ELSE parts[1] \o <<" ">> \o joinSpace(Tail(parts))

----------------------------------------------------------------------------
\* Exclude rules.  A rule is a regular expression without the g or y flag,
\* so that RegExp.test is a pure predicate of the string:
\*   [kind |-> "exact",  s |-> w]   /^w$/
\*   [kind |-> "prefix", s |-> w]   /^w/
\*   [kind |-> "single", s |-> C]   /^[^C]$/  (one character, none of C)
\*   [kind |-> "word"]               /^[\w-]+$/ (letters, digits, _ and -)

test(pattern, str) ==
    CASE pattern.kind = "exact"  -> str = pattern.s
      [] pattern.kind = "prefix" -> startsWith(str, pattern.s)
      [] pattern.kind = "single" -> Len(str) = 1 /\ str[1] \notin pattern.s
      [] pattern.kind = "word"   -> str # <<>> /\ Range(str) \subseteq Range(ALL_CHARS)

\* excludePatterns.some((pattern) => pattern.test(className))
matchesExcludeRule(className) ==
    \E i \in 1..Len(excludePatterns) : test(excludePatterns[i], className)

\* src/core.ts: exclude rules only
isExcludedCore(className) == matchesExcludeRule(className)

\* src/vite-plugin.ts: exclude rules or a recorded dynamic prefix
isExcludedPlugin(className) ==
    \/ matchesExcludeRule(className)
    \/ \E prefix \in dynamicPrefixes : startsWith(className, prefix)

\* variant of isExcluded with every in place of some
isExcludedEvery(className) ==
    \/ \A i \in 1..Len(excludePatterns) : test(excludePatterns[i], className)
    \/ (impl = "plugin" /\ \E prefix \in dynamicPrefixes : startsWith(className, prefix))

isExcluded(className) ==
    IF impl = "core" THEN isExcludedCore(className) ELSE isExcludedPlugin(className)

----------------------------------------------------------------------------
\* NameGenerator

\* reset(): zero for every character of the alphabet
reset == [ch \in Range(CountedChars) |-> 0]

\* recordUsage(str): one more for every character of str the table knows
RECURSIVE recordUsage(_, _)
recordUsage(frequency, str) ==
    IF str = <<>> THEN frequency
    ELSE LET ch == Head(str)
             f  == IF ch \in DOMAIN frequency
                   THEN [frequency EXCEPT ![ch] = @ + 1]
                   ELSE frequency
         IN recordUsage(f, Tail(str))

\* sortByFrequency(): the alphabets, most frequent character first
sortByFrequency(frequency) ==
    LET count(ch) == Get(frequency, ch, 0)
    IN IF impl = "core"
       THEN [leadingChars |-> SortDescending(LEADING_CHARS, count),
             allChars     |-> SortDescending(ALL_CHARS, count),
             frequency    |-> frequency]
       ELSE [chars     |-> SortDescending(BASE54, count),
             frequency |-> frequency]

\* variant of the loop of generate(index) without the decrement of num
RECURSIVE generateCoreLoopNoDecrement(_, _, _, _)
generateCoreLoopNoDecrement(g, result, base, num) ==
    LET r  == IF Len(result) = 0
              THEN <<g.leadingChars[(num % base) + 1]>>
              ELSE Append(result, g.allChars[(num % Len(g.allChars)) + 1])
        n2 == num \div base
    IN IF n2 > 0 THEN generateCoreLoopNoDecrement(g, r, Len(g.allChars), n2) ELSE r

\* src/core.ts generate(index): first character from leadingChars (least
\* significant digit), every later one from allChars
RECURSIVE generateCoreLoop(_, _, _, _)
generateCoreLoop(g, result, base, num) ==
    LET n1 == num - 1
        r  == IF Len(result) = 0
              THEN <<g.leadingChars[(n1 % base) + 1]>>
              ELSE Append(result, g.allChars[(n1 % Len(g.allChars)) + 1])
        n2 == n1 \div base
    IN IF n2 > 0 THEN generateCoreLoop(g, r, Len(g.allChars), n2) ELSE r

generateCore(g, index) == generateCoreLoop(g, <<>>, Len(g.leadingChars), index + 1)

\* src/vite-plugin.ts generate(index): bijective base-52 over chars, most
\* significant character first
RECURSIVE generatePluginLoop(_, _, _)
generatePluginLoop(g, result, n) ==
    LET base == Len(g.chars)
        r    == <<g.chars[(n % base) + 1]>> \o result
        n2   == (n \div base) - 1
    IN IF n2 >= 0 THEN generatePluginLoop(g, r, n2) ELSE r

generatePlugin(g, index) == generatePluginLoop(g, <<>>, index)

generate(g, index) ==
    IF impl = "core" THEN generateCore(g, index) ELSE generatePlugin(g, index)

----------------------------------------------------------------------------
\* Stylesheets.  A stylesheet is the sequence of selector components that
\* postcss and postcss-selector-parser walk, in document order; walkClasses
\* visits the components of type "class".

cssClassValues(css) ==
    LET nodes == SelectSeq(css, LAMBDA node : node.type = "class")
    IN [i \in 1..Len(nodes) |-> nodes[i].value]

\* new Set() filled by add(): distinct values in insertion order
RECURSIVE insertionOrder(_, _)
insertionOrder(values, seen) ==
    IF values = <<>> THEN <<>>
    ELSE IF Head(values) \in seen THEN insertionOrder(Tail(values), seen)
    ELSE <<Head(values)>> \o insertionOrder(Tail(values), seen \cup {Head(values)})

RECURSIVE recordAll(_, _)
recordAll(frequency, values) ==
    IF values = <<>> THEN frequency
    ELSE recordAll(recordUsage(frequency, Head(values)), Tail(values))

----------------------------------------------------------------------------
\* ClassMinifier: allocation

\* variant of getNextNameStep that gives up once the one-character names are
\* used up and returns the candidate whatever it is
getNextNameStepGivingUp(g, index) ==
    LET name == generate(g, index)
    IN [name |-> name, currentIndex |-> index + 1,
        returns |-> ~isExcluded(name) \/ index >= Len(BASE54)]

\* one iteration of the loop of getNextName(): the candidate at the cursor,
\* the cursor after it, and whether the loop returns the candidate
getNextNameStep(g, index) ==
    LET name == generate(g, index)
    IN [name |-> name, currentIndex |-> index + 1, returns |-> ~isExcluded(name)]

\* variant of getNextName that returns the generator output at the cursor
\* without testing it against the exclusions
getNextNameNoSkip(g, index) ==
    [name |-> generate(g, index), currentIndex |-> index + 1]

\* getNextName(): the first generator output at or after the cursor that is
\* not excluded, and the cursor after it
RECURSIVE getNextName(_, _)
getNextName(g, index) ==
    LET name == generate(g, index)
    IN IF ~isExcluded(name)
       THEN [name |-> name, currentIndex |-> index + 1]
       ELSE getNextName(g, index + 1)

\* the loop over sortedClasses of extractFromCSS
RECURSIVE assignNames(_, _, _, _)
assignNames(sortedClasses, map, index, g) ==
    IF sortedClasses = <<>> THEN [classMap |-> map, currentIndex |-> index]
    ELSE LET className == Head(sortedClasses)
         IN IF isExcluded(className)
            THEN assignNames(Tail(sortedClasses), Set(map, className, className), index, g)
            ELSE LET next == getNextName(g, index)
                 IN assignNames(Tail(sortedClasses), Set(map, className, next.name),
                                next.currentIndex, g)

\* variant of sortedClassesOf that keeps the stylesheet order
sortedClassesUnsorted(css) == insertionOrder(cssClassValues(css), {})

\* the order in which extractFromCSS visits the classes of a stylesheet
sortedClassesOf(css) ==
    SortDescending(insertionOrder(cssClassValues(css), {}),
                   LAMBDA c : Get(classUsageCount, c, 0))

\* variant of extractFromCSS that restarts the cursor at 0
extractFromCSSResetCursor(css) ==
    LET g == sortByFrequency(recordAll(reset, cssClassValues(css)))
        assigned == assignNames(sortedClassesOf(css), classMap, 0, g)
    IN [classMap |-> assigned.classMap,
        currentIndex |-> assigned.currentIndex,
        nameGenerator |-> g]

\* variant of extractFromCSS that clears the map first
extractFromCSSCleared(css) ==
    LET g == sortByFrequency(recordAll(reset, cssClassValues(css)))
        assigned == assignNames(sortedClassesOf(css), EmptyMap, currentIndex, g)
    IN [classMap |-> assigned.classMap,
        currentIndex |-> assigned.currentIndex,
        nameGenerator |-> g]

\* extractFromCSS(css): the fields it leaves
extractFromCSS(css) ==
    LET g == sortByFrequency(recordAll(reset, cssClassValues(css)))
        assigned == assignNames(sortedClassesOf(css), classMap, currentIndex, g)
    IN [classMap |-> assigned.classMap,
        currentIndex |-> assigned.currentIndex,
        nameGenerator |-> g]

\* variant of transformCSS that looks the name up and does not store it
transformCSSNotStored(css) == [i \in 1..Len(css) |-> css[i]]

\* transformCSS(css): the class components rewritten, all else as it was
transformCSS(css) ==
    [i \in 1..Len(css) |->
        IF css[i].type # "class" THEN css[i]
        ELSE IF isExcluded(css[i].value) THEN css[i]
        ELSE LET minified == Get(classMap, css[i].value, <<>>)
             IN IF minified # <<>> THEN [css[i] EXCEPT !.value = minified] ELSE css[i]]

----------------------------------------------------------------------------
\* Programs.  A program is the sequence of its source items in text order:
\*   [type |-> "code", text |-> lexemes]            text outside the literals
\*                                                   (whitespace lexemes are
\*                                                   elements of WhiteSpace)
\*   [type |-> "StringLiteral", quote, value, ancestors]
\*   [type |-> "TemplateLiteral", quasis, expressions, ancestors]
\* ancestors is the chain of syntax-tree nodes from the parent of the literal
\* to the root.  A literal is written in the source with the escapes that
\* escapeStringLiteral / escapeTemplateRaw produce.

RECURSIVE trimStart(_)
trimStart(str) ==
    IF str # <<>> /\ Head(str) \in WhiteSpace THEN trimStart(Tail(str)) ELSE str

RECURSIVE trimEnd(_)
trimEnd(str) ==
    IF str # <<>> /\ str[Len(str)] \in WhiteSpace
    THEN trimEnd(SubSeq(str, 1, Len(str) - 1)) ELSE str

trim(str) == trimEnd(trimStart(str))

\* /^\s*/.exec(str)[0] and /\s*$/.exec(str)[0]
leadingWhitespaceOf(str) == SubSeq(str, 1, Len(str) - Len(trimStart(str)))
trailingWhitespaceOf(str) == SubSeq(str, Len(trimEnd(str)) + 1, Len(str))

\* str.slice(0, -n) for n > 0
sliceOff(str, n) == SubSeq(str, 1, Len(str) - n)

\* str.replace(/c/g, '\\c') over a set of characters
RECURSIVE escapeChars(_, _)
escapeChars(str, special) ==
    IF str = <<>> THEN <<>>
    ELSE (IF Head(str) \in special THEN <<"\\", Head(str)>> ELSE <<Head(str)>>)
         \o escapeChars(Tail(str), special)

APOSTROPHE ==
    "'"

\* the back-tick character (named: the lexer of the tools reads a back-tick
\* inside a string as the start of a quotation)
BACKTICK ==
    "BACKTICK"

escapeTemplateRaw(str) == escapeChars(str, {"\\", BACKTICK, "$"})

escapeStringLiteral(str, quote) ==
    IF quote = "\"" THEN escapeChars(str, {"\\", "\""})
    ELSE IF quote = APOSTROPHE THEN escapeChars(str, {"\\", APOSTROPHE})
    ELSE escapeChars(str, {"\\"})

\* the text of a template literal: quasis and ${...} expressions interleaved
RECURSIVE templateBody(_, _)
templateBody(raws, expressions) ==
    IF raws = <<>> THEN <<>>
    ELSE raws[1] \o (IF expressions = <<>> THEN <<>>
                     ELSE <<expressions[1]>> \o templateBody(Tail(raws), Tail(expressions)))

templateText(raws, expressions) ==
    <<BACKTICK>> \o templateBody(raws, expressions) \o <<BACKTICK>>

\* the source text of one item, as the parser reads it
sourceOf(item) ==
    CASE item.type = "code" -> item.text
      [] item.type = "StringLiteral" ->
            <<item.quote>> \o escapeStringLiteral(item.value, item.quote) \o <<item.quote>>
      [] item.type = "TemplateLiteral" ->
            templateText([k \in 1..Len(item.quasis) |-> escapeTemplateRaw(item.quasis[k])],
                         item.expressions)

sourceText(code) == [i \in 1..Len(code) |-> sourceOf(code[i])]

----------------------------------------------------------------------------
\* analyzeJS

RECURSIVE countTokens(_, _)
countTokens(classUsage, classes) ==
    IF classes = <<>> THEN classUsage
    ELSE countTokens(Set(classUsage, Head(classes), Get(classUsage, Head(classes), 0) + 1),
                     Tail(classes))

\* variant of countClasses that stores the number of tokens of the literal
\* instead of adding one for each occurrence
countClassesOverwriting(classUsage, str) ==
    LET classes == splitClasses(str)
    IN [c \in (DOMAIN classUsage) \cup Range(classes) |->
           IF c \in Range(classes) THEN Len(classes) ELSE classUsage[c]]

countClasses(classUsage, str) == countTokens(classUsage, splitClasses(str))

detectPrefixes(prefixes, str) ==
    prefixes \cup {token \in Range(splitClasses(str)) :
                       endsWith(token, "-") \/ endsWith(token, ":")}

\* the TemplateLiteral visitor of analyzeJS, quasi by quasi
RECURSIVE analyzeQuasis(_, _, _)
analyzeQuasis(state, quasis, i) ==
    IF i > Len(quasis) THEN state
    ELSE LET cooked == quasis[i]
         IN IF cooked = <<>> THEN analyzeQuasis(state, quasis, i + 1)
            ELSE analyzeQuasis(
                   [classUsageCount |-> countClasses(state.classUsageCount, cooked),
                    dynamicPrefixes |->
                       IF impl = "plugin" /\ i < Len(quasis)
                       THEN detectPrefixes(state.dynamicPrefixes, cooked)
                       ELSE state.dynamicPrefixes],
                   quasis, i + 1)

\* the traversal of analyzeJS, item by item
RECURSIVE analyzeItems(_, _)
analyzeItems(state, code) ==
    IF code = <<>> THEN state
    ELSE LET item == Head(code)
             next == CASE item.type = "StringLiteral" ->
                             [state EXCEPT !.classUsageCount = countClasses(@, item.value)]
                       [] item.type = "TemplateLiteral" -> analyzeQuasis(state, item.quasis, 1)
                       [] OTHER -> state
         IN analyzeItems(next, Tail(code))

analyzeJS(code) ==
    analyzeItems([classUsageCount |-> classUsageCount, dynamicPrefixes |-> dynamicPrefixes],
                 code)

----------------------------------------------------------------------------
\* transformJS: helpers shared by the two implementations

\* variant of mapTokens that looks the token up and keeps the token
mapTokensKept(classes) == [k \in 1..Len(classes) |-> classes[k]]

mapTokens(classes) == [k \in 1..Len(classes) |-> Get(classMap, classes[k], classes[k])]

\* variant of isPartialToken that looks at the start of the token
isPartialTokenLeading(token) ==
    startsWith(token, <<"-">>) \/ startsWith(token, <<":">>)

isPartialToken(token) == endsWith(token, "-") \/ endsWith(token, ":")

\* checkPartialTransform(str): the last token is a partial prefix and every
\* token before it (at least one) is a key of the map
checkPartialTransform(str) ==
    LET parts == splitClasses(str)
    IN IF parts = <<>> THEN [canTransform |-> FALSE, partialSuffix |-> <<>>]
       ELSE LET lastPart == parts[Len(parts)]
                completeClasses == SubSeq(parts, 1, Len(parts) - 1)
            IN IF /\ isPartialToken(lastPart)
                  /\ Len(completeClasses) > 0
                  /\ \A c \in Range(completeClasses) : c \in DOMAIN classMap
               THEN [canTransform |-> TRUE, partialSuffix |-> lastPart]
               ELSE [canTransform |-> FALSE, partialSuffix |-> <<>>]

----------------------------------------------------------------------------
\* transformJS of src/core.ts: rewrite the syntax tree, then print it

isValidClassList(str) ==
    LET classes == splitClasses(str)
    IN classes # <<>> /\ \A c \in Range(classes) : c \in DOMAIN classMap

transformClassListCore(str) ==
    leadingWhitespaceOf(str) \o joinSpace(mapTokens(splitClasses(str)))
        \o trailingWhitespaceOf(str)

transformPartialCore(str, partialSuffix) ==
    LET beforePartial == trim(sliceOff(trimStart(str), Len(partialSuffix)))
    IN leadingWhitespaceOf(str) \o joinSpace(mapTokens(splitClasses(beforePartial)))
           \o <<" ">> \o partialSuffix

\* the TemplateLiteral visitor: the cooked value of quasi number index
quasiCore(quasis, index) ==
    LET cooked == quasis[index]
    IN IF cooked = <<>> THEN cooked
       ELSE IF isValidClassList(cooked) THEN transformClassListCore(cooked)
       ELSE IF index < Len(quasis)
            THEN LET partial == checkPartialTransform(cooked)
                 IN IF partial.canTransform
                    THEN transformPartialCore(cooked, partial.partialSuffix)
                    ELSE cooked
            ELSE cooked

\* generate(ast, { compact: true, minified: true }): string literals are
\* printed in double quotes, whitespace between tokens is dropped
RECURSIVE printString(_)
printString(str) ==
    IF str = <<>> THEN <<>>
    ELSE (CASE Head(str) \in {"\\", "\""} -> <<"\\", Head(str)>>
            [] Head(str) = "\n" -> <<"\\", "n">>
            [] Head(str) = "\t" -> <<"\\", "t">>
            [] OTHER -> <<Head(str)>>)
         \o printString(Tail(str))

printCompact(text) == SelectSeq(text, LAMBDA lexeme : lexeme \notin WhiteSpace)

transformItemCore(item) ==
    CASE item.type = "code" -> printCompact(item.text)
      [] item.type = "StringLiteral" ->
            LET value == IF isValidClassList(item.value)
                         THEN transformClassListCore(item.value)
                         ELSE item.value
            IN <<"\"">> \o printString(value) \o <<"\"">>
      [] item.type = "TemplateLiteral" ->
            templateText([k \in 1..Len(item.quasis) |->
                             escapeTemplateRaw(quasiCore(item.quasis, k))],
                         item.expressions)

transformJSCore(code) == [i \in 1..Len(code) |-> transformItemCore(code[i])]

----------------------------------------------------------------------------
\* transformJS of src/vite-plugin.ts: overwrite the ranges of the literals
\* that are rewritten, in the original text

isTransformable(str) == \E c \in Range(splitClasses(str)) : c \in DOMAIN classMap

transformClassListPlugin(str, addLeadingSpace, addTrailingSpace) ==
    LET classes == splitClasses(str)
        endsWithPartial == classes # <<>> /\ isPartialToken(classes[Len(classes)])
    IN (IF addLeadingSpace THEN <<" ">> ELSE <<>>)
       \o joinSpace(mapTokens(classes))
       \o (IF addTrailingSpace /\ ~endsWithPartial THEN <<" ">> ELSE <<>>)

transformPartialPlugin(str, partialSuffix, preserveLeadingWhitespace) ==
    LET beforePartial == trim(sliceOff(trim(str), Len(partialSuffix)))
    IN (IF preserveLeadingWhitespace /\ startsWith(str, <<" ">>) THEN <<" ">> ELSE <<>>)
       \o joinSpace(mapTokens(splitClasses(beforePartial)))
       \o <<" ">> \o partialSuffix

\* some ancestor is an object property whose key is the identifier style
isInsideStyleProp(item) ==
    \E k \in 1..Len(item.ancestors) :
        /\ item.ancestors[k].type = "ObjectProperty"
        /\ item.ancestors[k].key.type = "Identifier"
        /\ item.ancestors[k].key.name = "style"

\* the literal is an operand of a + expression: before = it is the right
\* operand, after = it is the left operand
isInConcatenation(item) ==
    IF \/ item.ancestors = <<>>
       \/ item.ancestors[1].type # "BinaryExpression"
       \/ item.ancestors[1].operator # "+"
    THEN [before |-> FALSE, after |-> FALSE]
    ELSE [before |-> item.ancestors[1].operand = "right",
          after  |-> item.ancestors[1].operand = "left"]

\* the TemplateLiteral visitor: the raw text of quasi number index
quasiPlugin(quasis, index) ==
    LET cooked == quasis[index]
        hasExpressionBefore == index > 1
        hasExpressionAfter == index < Len(quasis)
    IN IF cooked = <<>> THEN escapeTemplateRaw(cooked)
       ELSE IF isTransformable(cooked)
            THEN escapeTemplateRaw(
                   transformClassListPlugin(cooked, hasExpressionBefore, hasExpressionAfter))
       ELSE IF hasExpressionAfter
            THEN LET partial == checkPartialTransform(cooked)
                 IN IF partial.canTransform
                    THEN escapeTemplateRaw(
                           transformPartialPlugin(cooked, partial.partialSuffix,
                                                  hasExpressionBefore))
                    ELSE escapeTemplateRaw(cooked)
            ELSE escapeTemplateRaw(cooked)

transformItemPlugin(item) ==
    CASE item.type = "code" -> item.text
      [] item.type = "StringLiteral" ->
            IF isInsideStyleProp(item) THEN sourceOf(item)
            ELSE IF isTransformable(item.value)
                 THEN LET concat == isInConcatenation(item)
                          transformed == transformClassListPlugin(item.value, concat.before,
                                                                  concat.after)
                      IN <<item.quote>> \o escapeStringLiteral(transformed, item.quote)
                             \o <<item.quote>>
                 ELSE sourceOf(item)
      [] item.type = "TemplateLiteral" ->
            templateText([k \in 1..Len(item.quasis) |-> quasiPlugin(item.quasis, k)],
                         item.expressions)

transformJSPlugin(code) == [i \in 1..Len(code) |-> transformItemPlugin(code[i])]

transformJS(code) ==
    IF impl = "core" THEN transformJSCore(code) ELSE transformJSPlugin(code)

----------------------------------------------------------------------------
\* Inputs: class tokens, exclude options, stylesheets and programs

W_a   == <<"a">>
W_f   == <<"f">>
W_ab  == <<"a", "b">>
W_fi  == <<"f", "i">>
W_fih == <<"f", "i", "-", "h">>
W_zz  == <<"z", "z">>
W_div == <<"d", "i", "v">>

\* exclude: [], [/^fi$/, /^fi-/], [/^a$/], [/^[^b]$/]
ExcludeOptions ==
    { <<>>,
      << [kind |-> "exact", s |-> W_fi], [kind |-> "prefix", s |-> <<"f", "i", "-">>] >>,
      << [kind |-> "exact", s |-> W_a] >>,
      << [kind |-> "single", s |-> {"b"}] >> }

Class(value) == [type |-> "class", value |-> value]
Other(type, text) == [type |-> type, value |-> <<text>>]

\* .f:hover { }
CSS_f == << Class(W_f), Other("pseudo", ":hover") >>
\* .ab { } div.fi > .fi-h { } .ab:focus { }
CSS_mix == << Class(W_ab), Other("tag", "div"), Class(W_fi), Other("combinator", ">"),
              Class(W_fih), Class(W_ab), Other("pseudo", ":focus") >>

Stylesheets == {CSS_f, CSS_mix}

Code(text) == [type |-> "code", text |-> text]
StringLiteral(quote, value, ancestors) ==
    [type |-> "StringLiteral", quote |-> quote, value |-> value, ancestors |-> ancestors]
TemplateLiteral(quasis, expressions, ancestors) ==
    [type |-> "TemplateLiteral", quasis |-> quasis, expressions |-> expressions,
     ancestors |-> ancestors]

Node(type) == [type |-> type]
ObjectProperty(name) ==
    [type |-> "ObjectProperty", key |-> [type |-> "Identifier", name |-> name]]
BinaryExpression(operator, operand) ==
    [type |-> "BinaryExpression", operator |-> operator, operand |-> operand]

\* const x = "ab  zz"
\* // c
\* const y = 'zz'
JS_mixed ==
    << Code(<<"const x", " ", "=", " ">>),
       StringLiteral("\"", W_ab \o <<" ", " ">> \o W_zz, <<Node("VariableDeclarator")>>),
       Code(<<"\n", "// c", "\n", "const y", " ", "=", " ">>),
       StringLiteral(APOSTROPHE, W_zz, <<Node("VariableDeclarator")>>) >>

\* jsx("div", { className: "ab", style: { overflow: "ab" } })
JS_style ==
    << Code(<<"jsx", "(">>),
       StringLiteral("\"", W_div, <<Node("CallExpression")>>),
       Code(<<",", " ", "{", " ", "className", ":", " ">>),
       StringLiteral("\"", W_ab,
                     <<ObjectProperty("className"), Node("ObjectExpression"),
                       Node("CallExpression")>>),
       Code(<<",", " ", "style", ":", " ", "{", " ", "overflow", ":", " ">>),
       StringLiteral("\"", W_ab,
                     <<ObjectProperty("overflow"), Node("ObjectExpression"),
                       ObjectProperty("style"), Node("ObjectExpression"),
                       Node("CallExpression")>>),
       Code(<<" ", "}", " ", "}", ")">>) >>

\* const x = `fi fi-${code}`
\* const y = "f" + z
JS_template ==
    << Code(<<"const x", " ", "=", " ">>),
       TemplateLiteral(<<W_fi \o <<" ">> \o <<"f", "i", "-">>, <<>>>>, <<"${code}">>,
                       <<Node("VariableDeclarator")>>),
       Code(<<"\n", "const y", " ", "=", " ">>),
       StringLiteral("\"", W_f, <<BinaryExpression("+", "left"),
                                  Node("VariableDeclarator")>>),
       Code(<<" ", "+", " ", "z">>) >>

Programs == {JS_mixed, JS_style, JS_template}

\* const x = `ab${x}  fi ${y}ab`
JS_spacing ==
    << Code(<<"const x", " ", "=", " ">>),
       TemplateLiteral(<<W_ab, <<" ", " ">> \o W_fi \o <<" ">>, W_ab>>,
                       <<"${x}", "${y}">>, <<Node("VariableDeclarator")>>) >>

\* const x = `ab zz fi-${code}`
\* const k = "ab fi-h"
JS_partial ==
    << Code(<<"const x", " ", "=", " ">>),
       TemplateLiteral(<<W_ab \o <<" ">> \o W_zz \o <<" ">> \o <<"f", "i", "-">>, <<>>>>,
                       <<"${code}">>, <<Node("VariableDeclarator")>>),
       Code(<<"\n", "const k", " ", "=", " ">>),
       StringLiteral("\"", W_ab \o <<" ">> \o W_fih, <<Node("VariableDeclarator")>>) >>

\* the programs given to transformJS: those analyzeJS has read and two more
TransformPrograms == Programs \cup {JS_spacing, JS_partial}

----------------------------------------------------------------------------
\* The instance: construction and the four public operations

NoReturn == <<>>

\* the instance is driven by direct calls, not by a generateBundle run
NoRun == [phase |-> "none"]

Init ==
    /\ impl \in {"core", "plugin"}
    /\ excludePatterns \in ExcludeOptions
    /\ currentIndex = 0
    /\ classMap = EmptyMap
    /\ nameGenerator =
          IF impl = "core"
          THEN [leadingChars |-> LEADING_CHARS, allChars |-> ALL_CHARS, frequency |-> reset]
          ELSE [chars |-> BASE54, frequency |-> EmptyMap]
    /\ classUsageCount = EmptyMap
    /\ dynamicPrefixes = {}
    /\ call = [op |-> "new", arg |-> <<>>, ret |-> NoReturn]
    /\ last = [op |-> "none", arg |-> <<>>]
    /\ prev = [op |-> "none", arg |-> <<>>, classMap |-> EmptyMap]
    /\ extractCalls = 0
    /\ analyzeCalls = 0
    /\ run = NoRun

\* a call that changes the instance
Changed(op, arg) ==
    /\ call' = [op |-> op, arg |-> arg, ret |-> NoReturn]
    /\ last' = [op |-> op, arg |-> arg]
    /\ prev' = [op |-> last.op, arg |-> last.arg, classMap |-> classMap]

\* a call that returns a text and changes nothing
Returned(op, arg, ret) ==
    /\ call' = [op |-> op, arg |-> arg, ret |-> ret]
    /\ UNCHANGED <<last, prev>>

AnalyzeJS(code) ==
    /\ analyzeCalls < MaxAnalyze
    /\ LET after == analyzeJS(code)
       IN /\ classUsageCount' = after.classUsageCount
          /\ dynamicPrefixes' = after.dynamicPrefixes
    /\ analyzeCalls' = analyzeCalls + 1
    /\ Changed("analyzeJS", code)
    /\ UNCHANGED <<impl, excludePatterns, currentIndex, classMap, nameGenerator,
                   extractCalls, run>>

ExtractFromCSS(css) ==
    /\ extractCalls < MaxExtract
    /\ LET after == extractFromCSS(css)
       IN /\ classMap' = after.classMap
          /\ currentIndex' = after.currentIndex
          /\ nameGenerator' = after.nameGenerator
    /\ extractCalls' = extractCalls + 1
    /\ Changed("extractFromCSS", css)
    /\ UNCHANGED <<impl, excludePatterns, classUsageCount, dynamicPrefixes, analyzeCalls,
                   run>>

\* variant of TransformCSS that stores an entry for every class it meets
\* without one
TransformCSSStoring(css) ==
    /\ Returned("transformCSS", css, transformCSS(css))
    /\ classMap' = [c \in DOMAIN classMap \cup Range(cssClassValues(css)) |->
                        Get(classMap, c, c)]
    /\ UNCHANGED <<impl, excludePatterns, currentIndex, nameGenerator,
                   classUsageCount, dynamicPrefixes, extractCalls, analyzeCalls, run>>

TransformCSS(css) ==
    /\ Returned("transformCSS", css, transformCSS(css))
    /\ UNCHANGED <<impl, excludePatterns, currentIndex, classMap, nameGenerator,
                   classUsageCount, dynamicPrefixes, extractCalls, analyzeCalls, run>>

TransformJS(code) ==
    /\ Returned("transformJS", code, transformJS(code))
    /\ UNCHANGED <<impl, excludePatterns, currentIndex, classMap, nameGenerator,
                   classUsageCount, dynamicPrefixes, extractCalls, analyzeCalls, run>>

Next ==
    \/ \E code \in Programs : AnalyzeJS(code)
    \/ \E css \in Stylesheets : ExtractFromCSS(css)
    \/ \E css \in Stylesheets : TransformCSS(css)
    \/ \E code \in TransformPrograms : TransformJS(code)

Spec == Init /\ [][Next]_vars

----------------------------------------------------------------------------
\* Allocation, iteration by iteration: the instance is inside an
\* extractFromCSS call, after sortByFrequency(), and the loop over
\* sortedClasses calls getNextName() for one non-excluded class after the
\* other.  call.ret is NoReturn while the loop of getNextName() runs.

\* the cursor values the model follows the allocation to
MaxIndex == 165

\* .c-0 { } .md\:-mt-0 { }
CSS_c0 ==
    << Class(<<"c", "-", "0">>),
       Class(<<"m", "d", ":", "-", "m", "t", "-", "0">>) >>

AllocStylesheets == Stylesheets \cup {CSS_c0}

\* exclude: [], [/^[^b]$/], [/^[\w-]+$/] (matches every generator output)
AllocExcludeOptions ==
    { <<>>,
      << [kind |-> "single", s |-> {"b"}] >>,
      << [kind |-> "word"] >> }

InitAlloc ==
    /\ impl \in {"core", "plugin"}
    /\ excludePatterns \in AllocExcludeOptions
    /\ currentIndex = 0
    /\ classMap = EmptyMap
    /\ \E css \in AllocStylesheets :
          /\ nameGenerator = sortByFrequency(recordAll(reset, cssClassValues(css)))
          /\ last = [op |-> "extractFromCSS", arg |-> css]
    /\ classUsageCount = EmptyMap
    /\ dynamicPrefixes = {}
    /\ call = [op |-> "extractFromCSS", arg |-> last.arg, ret |-> NoReturn]
    /\ prev = [op |-> "none", arg |-> <<>>, classMap |-> EmptyMap]
    /\ extractCalls = 1
    /\ analyzeCalls = 0
    /\ run = NoRun

InLoop == call.op = "getNextName" /\ call.ret = NoReturn

\* extractFromCSS calls getNextName() for the next non-excluded class
GetNextNameCall ==
    /\ ~InLoop
    /\ \E className \in Range(cssClassValues(last.arg)) : ~isExcluded(className)
    /\ currentIndex < MaxIndex
    /\ call' = [op |-> "getNextName", arg |-> currentIndex, ret |-> NoReturn]
    /\ UNCHANGED <<impl, excludePatterns, currentIndex, classMap, nameGenerator,
                   classUsageCount, dynamicPrefixes, last, prev, extractCalls,
                   analyzeCalls, run>>

\* one iteration of for (;;) in getNextName()
GetNextNameIteration ==
    /\ InLoop
    /\ currentIndex < MaxIndex
    /\ LET step == getNextNameStep(nameGenerator, currentIndex)
       IN /\ currentIndex' = step.currentIndex
          /\ call' = [call EXCEPT !.ret = IF step.returns THEN step.name ELSE NoReturn]
    /\ UNCHANGED <<impl, excludePatterns, classMap, nameGenerator,
                   classUsageCount, dynamicPrefixes, last, prev, extractCalls,
                   analyzeCalls, run>>

NextAlloc == GetNextNameCall \/ GetNextNameIteration

SpecAlloc == InitAlloc /\ [][NextAlloc]_vars

\* the loop is sequential code: an iteration that can run does run
SpecAllocFair == SpecAlloc /\ WF_vars(GetNextNameIteration)

----------------------------------------------------------------------------
\* The Vite plugin: one generateBundle run over the CSS assets and the JS
\* chunks of a bundle, call by call.  run.phase is the loop the run is in,
\* run.index the entry that loop is at and run.log the calls made so far,
\* each with whether it threw (and ended in the catch clause).  The
\* plugin imports ClassMinifier from ./core.js; the class of vite-plugin.ts
\* takes the same calls.

MaxAssets == 2
MaxChunks == 2

Unterminated(text) == [type |-> "Unterminated", text |-> text]

\* const x = "ab"
\* const y = "zz        (the string is not closed)
JS_broken ==
    << Code(<<"const x", " ", "=", " ">>),
       StringLiteral("\"", W_ab, <<Node("VariableDeclarator")>>),
       Code(<<"\n", "const y", " ", "=", " ">>),
       Unterminated(<<"\"", "z", "z">>) >>

BundlePrograms == {JS_mixed, JS_template, JS_broken}

SeqsUpTo(S, n) == UNION {[1..k -> S] : k \in 0..n}

\* parse(code, PARSER_OPTIONS): throws on a text it cannot recover from
parse(code) ==
    [threw |-> \E i \in 1..Len(code) : code[i].type = "Unterminated",
     ast |-> code]

\* variant of analyzeJS that counts what it can read of a text that does
\* not parse
analyzeJSCallCounting(code) ==
    LET after == analyzeJS(code)
    IN [threw |-> parse(code).threw,
        classUsageCount |-> after.classUsageCount,
        dynamicPrefixes |-> after.dynamicPrefixes]

\* an analyzeJS(code) call: parse comes first and nothing catches what it
\* throws
analyzeJSCall(code) ==
    LET parsed == parse(code)
    IN IF parsed.threw
       THEN [threw |-> TRUE,
             classUsageCount |-> classUsageCount,
             dynamicPrefixes |-> dynamicPrefixes]
       ELSE LET after == analyzeJS(parsed.ast)
            IN [threw |-> FALSE,
                classUsageCount |-> after.classUsageCount,
                dynamicPrefixes |-> after.dynamicPrefixes]

\* a transformJS(code) call: the text it returns, unless parse throws
transformJSCall(code) ==
    LET parsed == parse(code)
    IN IF parsed.threw
       THEN [threw |-> TRUE, code |-> code]
       ELSE [threw |-> FALSE, code |-> transformJS(parsed.ast)]

\* the four loops of generateBundle: the call the run makes next
RECURSIVE nextCall(_)
nextCall(r) ==
    CASE r.phase = "analyzeJS" /\ r.index > Len(r.jsChunks) ->
             nextCall([r EXCEPT !.phase = "extractFromCSS", !.index = 1])
      [] r.phase = "extractFromCSS" /\ r.index > Len(r.cssAssets) ->
             nextCall([r EXCEPT !.phase = "transformCSS", !.index = 1])
      [] r.phase = "transformCSS" /\ r.index > Len(r.cssAssets) ->
             nextCall([r EXCEPT !.phase = "transformJS", !.index = 1])
      [] r.phase = "transformJS" /\ r.index > Len(r.jsChunks) ->
             [r EXCEPT !.phase = "done", !.index = 1]
      [] OTHER -> r

\* the run after the call op on the entry it is at
afterCall(r, op, threw) ==
    nextCall([r EXCEPT !.index = @ + 1,
                       !.log = Append(@, [op |-> op, threw |-> threw])])

InitBundle ==
    /\ impl \in {"core", "plugin"}
    /\ excludePatterns \in ExcludeOptions
    /\ currentIndex = 0
    /\ classMap = EmptyMap
    /\ nameGenerator =
          IF impl = "core"
          THEN [leadingChars |-> LEADING_CHARS, allChars |-> ALL_CHARS, frequency |-> reset]
          ELSE [chars |-> BASE54, frequency |-> EmptyMap]
    /\ classUsageCount = EmptyMap
    /\ dynamicPrefixes = {}
    /\ call = [op |-> "new", arg |-> <<>>, ret |-> NoReturn]
    /\ last = [op |-> "none", arg |-> <<>>]
    /\ prev = [op |-> "none", arg |-> <<>>, classMap |-> EmptyMap]
    /\ extractCalls = 0
    /\ analyzeCalls = 0
    /\ \E cssAssets \in SeqsUpTo(Stylesheets, MaxAssets),
          jsChunks \in SeqsUpTo(BundlePrograms, MaxChunks) :
          run = nextCall([phase |-> "analyzeJS", index |-> 1,
                          cssAssets |-> cssAssets, jsChunks |-> jsChunks,
                          log |-> <<>>])

\* try { minifier.analyzeJS(chunk.code) } catch { }
BundleAnalyzeJS ==
    /\ run.phase = "analyzeJS"
    /\ LET code == run.jsChunks[run.index]
           outcome == analyzeJSCall(code)
       IN /\ classUsageCount' = outcome.classUsageCount
          /\ dynamicPrefixes' = outcome.dynamicPrefixes
          /\ call' = [op |-> "analyzeJS", arg |-> code, ret |-> NoReturn]
          /\ IF outcome.threw
             THEN UNCHANGED <<last, prev>>
             ELSE /\ last' = [op |-> "analyzeJS", arg |-> code]
                  /\ prev' = [op |-> last.op, arg |-> last.arg, classMap |-> classMap]
          /\ run' = afterCall(run, "analyzeJS", outcome.threw)
    /\ analyzeCalls' = analyzeCalls + 1
    /\ UNCHANGED <<impl, excludePatterns, currentIndex, classMap, nameGenerator,
                   extractCalls>>

\* minifier.extractFromCSS(asset.source)
BundleExtractFromCSS ==
    /\ run.phase = "extractFromCSS"
    /\ LET css == run.cssAssets[run.index]
           after == extractFromCSS(css)
       IN /\ classMap' = after.classMap
          /\ currentIndex' = after.currentIndex
          /\ nameGenerator' = after.nameGenerator
          /\ Changed("extractFromCSS", css)
    /\ run' = afterCall(run, "extractFromCSS", FALSE)
    /\ extractCalls' = extractCalls + 1
    /\ UNCHANGED <<impl, excludePatterns, classUsageCount, dynamicPrefixes, analyzeCalls>>

\* asset.source = minifier.transformCSS(asset.source)
BundleTransformCSS ==
    /\ run.phase = "transformCSS"
    /\ LET css == run.cssAssets[run.index]
           source == transformCSS(css)
       IN /\ Returned("transformCSS", css, source)
          /\ run' = afterCall([run EXCEPT !.cssAssets[run.index] = source],
                              "transformCSS", FALSE)
    /\ UNCHANGED <<impl, excludePatterns, currentIndex, classMap, nameGenerator,
                   classUsageCount, dynamicPrefixes, extractCalls, analyzeCalls>>

\* try { chunk.code = minifier.transformJS(chunk.code) } catch (error) { }
BundleTransformJS ==
    /\ run.phase = "transformJS"
    /\ LET code == run.jsChunks[run.index]
           outcome == transformJSCall(code)
       IN /\ Returned("transformJS", code, IF outcome.threw THEN NoReturn ELSE outcome.code)
          /\ run' = afterCall([run EXCEPT !.jsChunks[run.index] = outcome.code],
                              "transformJS", outcome.threw)
    /\ UNCHANGED <<impl, excludePatterns, currentIndex, classMap, nameGenerator,
                   classUsageCount, dynamicPrefixes, extractCalls, analyzeCalls>>

NextBundle ==
    \/ BundleAnalyzeJS
    \/ BundleExtractFromCSS
    \/ BundleTransformCSS
    \/ BundleTransformJS

SpecBundle == InitBundle /\ [][NextBundle]_vars

----------------------------------------------------------------------------
\* Vocabulary of the properties

classTokensOf(css) == Range(cssClassValues(css))

NonExcludedKeys == {c \in DOMAIN classMap : ~isExcluded(c)}

usageCount(c) == Get(classUsageCount, c, 0)

\* every class token of the stylesheet has been given an entry by an
\* extractFromCSS call (the stylesheets of the model share no class token, so
\* this is: extractFromCSS(css) has been called)
Extracted(css) == classTokensOf(css) \subseteq DOMAIN classMap

\* the class components of a stylesheet that transformCSS may rewrite
RewritableAt(css, i) == css[i].type = "class" /\ ~isExcluded(css[i].value)

\* two extractFromCSS calls with no analyzeJS call between them or after them
ExtractedTwice == last.op = "extractFromCSS" /\ prev.op = "extractFromCSS"

\* the mapping extractFromCSS(css) builds on a new instance with the usage
\* counts and exclusions of the current one
FreshMap(css) ==
    assignNames(sortedClassesOf(css), EmptyMap, 0,
                sortByFrequency(recordAll(reset, cssClassValues(css)))).classMap

----------------------------------------------------------------------------
\* C1 (as claimed): in every state reached by analyzeJS and extractFromCSS
\* calls, two distinct non-excluded class tokens of the mapping have
\* different rewritten names.
C1_Injectivity ==
    \A a, b \in NonExcludedKeys : a # b => classMap[a] # classMap[b]

\* C2 (as claimed): after extractFromCSS(S), transformCSS(S) leaves no
\* non-excluded original class token of S as a class component of its output.
C2_NoOriginalTokenLeft ==
    (call.op = "transformCSS" /\ Extracted(call.arg)) =>
        \A c \in classTokensOf(call.arg) :
            ~isExcluded(c) => c \notin classTokensOf(call.ret)

\* C2 (amended): after extractFromCSS(S), transformCSS(S) replaces every
\* class component whose token c is not excluded by map[c] and leaves every
\* other component as it was; a non-excluded token c of S is a class
\* component of the output only when c is itself the rewritten name of a
\* non-excluded class token of S.
C2_RewrittenByMap ==
    (call.op = "transformCSS" /\ Extracted(call.arg)) =>
        /\ Len(call.ret) = Len(call.arg)
        /\ \A i \in 1..Len(call.arg) :
              IF RewritableAt(call.arg, i)
              THEN call.ret[i] = Class(classMap[call.arg[i].value])
              ELSE call.ret[i] = call.arg[i]
        /\ \A c \in classTokensOf(call.arg) :
              (~isExcluded(c) /\ c \in classTokensOf(call.ret)) =>
                  \E d \in classTokensOf(call.arg) : ~isExcluded(d) /\ classMap[d] = c

\* C2 witness: transformCSS(S) after extractFromCSS(S) has renamed a class
\* component, and a one-letter class of another extracted stylesheet is a
\* possible generated name that was mapped to itself.
C2_Witness ==
    /\ call.op = "transformCSS" /\ Extracted(call.arg)
    /\ \E i \in 1..Len(call.arg) :
          RewritableAt(call.arg, i) /\ call.ret[i] # call.arg[i]
    /\ \E c \in NonExcludedKeys : Len(c) = 1 /\ classMap[c] = c

C5_ExclusionStability ==
    /\ \A t \in DOMAIN classMap : matchesExcludeRule(t) => classMap[t] = t
    /\ call.op = "transformCSS" =>
          \A i \in 1..Len(call.arg) :
              (call.arg[i].type = "class" /\ matchesExcludeRule(call.arg[i].value)) =>
                  (Len(call.ret) >= i /\ call.ret[i] = call.arg[i])

\* C5 witness: transformCSS of an extracted stylesheet that has a class
\* token matching an exclude rule next to one that was renamed.
C5_Witness ==
    /\ call.op = "transformCSS" /\ Extracted(call.arg)
    /\ \E t \in classTokensOf(call.arg) : matchesExcludeRule(t)
    /\ \E c \in classTokensOf(call.arg) : ~isExcluded(c) /\ classMap[c] # c

\* C6: the rewritten name of a non-excluded class token matches no exclude
\* rule.
C6_NamesMatchNoRule ==
    \A c \in NonExcludedKeys : ~matchesExcludeRule(classMap[c])

\* C6 witness: allocation has passed over a generator output that matches an
\* exclude rule and has issued a later one.
C6_Witness ==
    /\ call.op = "extractFromCSS"
    /\ \E c \in NonExcludedKeys, index \in 0..(currentIndex - 1) :
          /\ matchesExcludeRule(generate(nameGenerator, index))
          /\ classMap[c] = generate(nameGenerator, currentIndex - 1)
          /\ index < currentIndex - 1

\* C7 (as claimed): in every state reached by analyzeJS and extractFromCSS
\* calls, for non-excluded tokens a and b of the mapping with
\* count(a) > count(b), map[a] is not longer than map[b].
C7_LengthOrdering ==
    \A a, b \in NonExcludedKeys :
        usageCount(a) > usageCount(b) => Len(classMap[a]) <= Len(classMap[b])

\* C7 (amended): after an extractFromCSS call, and until the next analyzeJS
\* or extractFromCSS call, for any two non-excluded class tokens a and b of
\* the stylesheet of that call with count(a) > count(b), map[a] is not
\* longer than map[b].
C7_LengthOrderingPerExtract ==
    last.op = "extractFromCSS" =>
        \A a, b \in classTokensOf(last.arg) :
            (~isExcluded(a) /\ ~isExcluded(b) /\ usageCount(a) > usageCount(b)) =>
                Len(classMap[a]) <= Len(classMap[b])

\* C7 witness: an extractFromCSS call has given a more used token a
\* one-character name and a less used token a two-character name.
C7_Witness ==
    /\ call.op = "extractFromCSS"
    /\ \E a, b \in classTokensOf(call.arg) :
          /\ ~isExcluded(a) /\ ~isExcluded(b) /\ usageCount(a) > usageCount(b)
          /\ Len(classMap[a]) = 1 /\ Len(classMap[b]) = 2

----------------------------------------------------------------------------
\* Vocabulary of the properties of transformJS

\* the text between the quote characters of a printed string literal
contentOf(text) == SubSeq(text, 2, Len(text) - 1)

\* the literal chunks of an item: the value of a string literal, the quasis
\* of a template literal
chunksOf(item) ==
    CASE item.type = "StringLiteral" -> {item.value}
      [] item.type = "TemplateLiteral" -> Range(item.quasis)
      [] OTHER -> {}

hasMappedToken(str) == \E token \in Range(splitClasses(str)) : token \in DOMAIN classMap

\* some ancestor of the literal is an object property with the key style
InStyleValue(item) ==
    \E k \in 1..Len(item.ancestors) :
        /\ item.ancestors[k].type = "ObjectProperty"
        /\ item.ancestors[k].key = [type |-> "Identifier", name |-> "style"]

\* C8 (as claimed): transformJS rewrites a string literal as soon as one of
\* its tokens is a key of the mapping; the result is the tokens in their
\* order, each key replaced by its mapped value and every other token kept,
\* joined by single spaces.
C8_MixedTokens ==
    call.op = "transformJS" =>
        \A i \in 1..Len(call.arg) :
            (/\ call.arg[i].type = "StringLiteral"
             /\ ~InStyleValue(call.arg[i])
             /\ hasMappedToken(call.arg[i].value)) =>
                trim(contentOf(call.ret[i])) =
                    joinSpace(mapTokens(splitClasses(call.arg[i].value)))

\* C9 (as claimed): transformJS changes only the literals it rewrites: the
\* text outside the literals, and every literal none of whose tokens is a key
\* of the mapping, is returned as it was written; a program with no such
\* token at all is returned identical.
C9_NonClassPreservation ==
    call.op = "transformJS" =>
        /\ Len(call.ret) = Len(call.arg)
        /\ \A i \in 1..Len(call.arg) :
              (\A chunk \in chunksOf(call.arg[i]) : ~hasMappedToken(chunk)) =>
                  call.ret[i] = sourceOf(call.arg[i])

\* C10 (as claimed): transformJS never alters a string literal that lies
\* inside the value of a property with the key style, while a string literal
\* elsewhere whose content is a mapped class token is rewritten to its name.
C10_StyleValueImmunity ==
    call.op = "transformJS" =>
        \A i \in 1..Len(call.arg) :
            call.arg[i].type = "StringLiteral" =>
                IF InStyleValue(call.arg[i])
                THEN call.ret[i] = sourceOf(call.arg[i])
                ELSE call.arg[i].value \in DOMAIN classMap =>
                         trim(contentOf(call.ret[i])) = classMap[call.arg[i].value]

----------------------------------------------------------------------------
\* Vocabulary of the properties of template literals

\* the chunks of a printed template literal: the text between the back-ticks,
\* cut at the interpolations
RECURSIVE cutAt(_, _, _)
cutAt(body, exprs, cur) ==
    IF body = <<>> THEN <<cur>>
    ELSE IF Head(body) \in exprs THEN <<cur>> \o cutAt(Tail(body), exprs, <<>>)
    ELSE cutAt(Tail(body), exprs, Append(cur, Head(body)))

printedQuasis(text, expressions) == cutAt(contentOf(text), Range(expressions), <<>>)

\* chunk number k of the template literal that is item number i of the
\* program given to the last transformJS call, as written and as returned
chunkIn(i, k) == call.arg[i].quasis[k]
chunkOut(i, k) == printedQuasis(call.ret[i], call.arg[i].expressions)[k]

\* the template chunks of the program that an interpolation follows / precedes
TemplateItems == {i \in 1..Len(call.arg) : call.arg[i].type = "TemplateLiteral"}
BeforeInterpolation(i, k) == k < Len(call.arg[i].quasis)
AfterInterpolation(i, k) == k > 1

lastOf(seq) == seq[Len(seq)]
allButLast(seq) == SubSeq(seq, 1, Len(seq) - 1)

\* a chunk before an interpolation whose text ends with a token ending in
\* - or :
PartialChunk(i, k) ==
    /\ BeforeInterpolation(i, k)
    /\ chunkIn(i, k) # <<>>
    /\ lastOf(chunkIn(i, k)) \in {"-", ":"}

AllKeys(tokens) == \A c \in Range(tokens) : c \in DOMAIN classMap

\* the chunk ends with the partial token, one space before it when a token
\* precedes it
EndsWithPartial(out, tokens) ==
    LET partial == lastOf(tokens)
        tail == (IF Len(tokens) > 1 THEN <<" ">> ELSE <<>>) \o partial
    IN /\ Len(out) >= Len(tail)
       /\ SubSeq(out, Len(out) - Len(tail) + 1, Len(out)) = tail
       /\ (Len(tokens) > 1 /\ Len(out) > Len(tail)) =>
              out[Len(out) - Len(tail)] \notin WhiteSpace

RewrittenChunk(chunk) ==
    LET tokens == splitClasses(chunk)
    IN /\ tokens # <<>>
       /\ IF impl = "core" THEN AllKeys(tokens) ELSE hasMappedToken(chunk)

\* exactly one white-space character at the end / at the start, and it is a
\* space
OneSpaceAtEnd(out) ==
    /\ Len(out) >= 2
    /\ out[Len(out)] = " "
    /\ out[Len(out) - 1] \notin WhiteSpace

OneSpaceAtStart(out) ==
    /\ Len(out) >= 2
    /\ out[1] = " "
    /\ out[2] \notin WhiteSpace

\* C12 (as claimed): a template chunk that transformJS rewrites ends with
\* exactly one space when an interpolation follows it and its last token does
\* not end in - or :, begins with exactly one space when an interpolation
\* precedes it, and gets no added space at an edge of the template literal.
C12_InterpolationSpacing ==
    call.op = "transformJS" =>
        \A i \in TemplateItems : \A k \in 1..Len(call.arg[i].quasis) :
            RewrittenChunk(chunkIn(i, k)) =>
                LET in == chunkIn(i, k)
                    out == chunkOut(i, k)
                IN /\ (BeforeInterpolation(i, k) /\ lastOf(trimEnd(in)) \notin {"-", ":"}) =>
                          OneSpaceAtEnd(out)
                   /\ AfterInterpolation(i, k) => OneSpaceAtStart(out)
                   /\ ~BeforeInterpolation(i, k) =>
                          Len(trailingWhitespaceOf(out)) <= Len(trailingWhitespaceOf(in))
                   /\ ~AfterInterpolation(i, k) =>
                          Len(leadingWhitespaceOf(out)) <= Len(leadingWhitespaceOf(in))

----------------------------------------------------------------------------
\* Vocabulary of the properties of dynamic prefixes

\* the tokens ending in - or : of the chunks of one template literal that an
\* interpolation follows
partialTokensOf(item) ==
    IF item.type # "TemplateLiteral" THEN {}
    ELSE UNION {{token \in Range(splitClasses(item.quasis[k])) :
                    lastOf(token) \in {"-", ":"}} : k \in 1..(Len(item.quasis) - 1)}

\* the tokens ending in - or : that a program has before an interpolation
SeenPrefixes(code) == UNION {partialTokensOf(code[i]) : i \in 1..Len(code)}

\* every occurrence of the token c in the string literals of the program
\* given to transformJS is returned as c
TokenKeptInJS(c) ==
    \A i \in 1..Len(call.arg) :
        call.arg[i].type = "StringLiteral" =>
            LET tokens == splitClasses(call.arg[i].value)
                outTokens == splitClasses(contentOf(call.ret[i]))
            IN /\ Len(outTokens) = Len(tokens)
               /\ \A t \in 1..Len(tokens) : tokens[t] = c => outTokens[t] = c

\* every class component c of the stylesheet given to transformCSS is
\* returned as it was
TokenKeptInCSS(c) ==
    \A i \in 1..Len(call.arg) :
        (call.arg[i].type = "class" /\ call.arg[i].value = c) => call.ret[i] = call.arg[i]

\* C13 (as claimed): when an analyzeJS call has seen a token p ending in - or
\* : before an interpolation and extractFromCSS is called after it, every
\* class token of the stylesheet that starts with p is mapped to itself, and
\* transformCSS and transformJS return every occurrence of it unchanged.
C13_DynamicPrefixExclusion ==
    (last.op = "extractFromCSS" /\ prev.op = "analyzeJS") =>
        \A p \in SeenPrefixes(prev.arg) : \A c \in classTokensOf(last.arg) :
            startsWith(c, p) =>
                /\ classMap[c] = c
                /\ call.op = "transformCSS" => TokenKeptInCSS(c)
                /\ call.op = "transformJS" => TokenKeptInJS(c)

----------------------------------------------------------------------------
\* Vocabulary of CSS/JS consistency

\* a string literal that transformJS rewrites
RewrittenLiteral(item) ==
    /\ item.type = "StringLiteral"
    /\ RewrittenChunk(item.value)
    /\ impl = "plugin" => ~InStyleValue(item)

\* transformCSS has written map[c] for every component .c with c in tokens
CSSWritesMap(tokens) ==
    \A i \in 1..Len(call.arg) :
        (call.arg[i].type = "class" /\ call.arg[i].value \in tokens) =>
            call.ret[i].value = classMap[call.arg[i].value]

\* transformJS has written map[c] for every token c in tokens of a string
\* literal it rewrites
JSWritesMap(tokens) ==
    \A i \in 1..Len(call.arg) :
        RewrittenLiteral(call.arg[i]) =>
            LET in == splitClasses(call.arg[i].value)
                out == splitClasses(contentOf(call.ret[i]))
            IN /\ Len(out) = Len(in)
               /\ \A t \in 1..Len(in) : in[t] \in tokens => out[t] = classMap[in[t]]

\* C19 (as claimed): in every state reached by analyzeJS and extractFromCSS
\* calls with at least one extractFromCSS call, for every key c of the
\* mapping, transformCSS writes map[c] for the component .c and transformJS
\* writes map[c] for the token c.
C19_Consistency ==
    /\ call.op = "transformCSS" => CSSWritesMap(DOMAIN classMap)
    /\ call.op = "transformJS" => JSWritesMap(DOMAIN classMap)

\* C19 (amended): transformJS writes map[c] for every key c; transformCSS
\* writes map[c] for every key c that is not excluded at the time of the call
\* and leaves an excluded one as it is; the two agree on every class token of
\* the stylesheet of the last extractFromCSS call as long as no analyzeJS
\* call has been made since that call.
C19_ConsistencySinceExtract ==
    /\ call.op = "transformJS" => JSWritesMap(DOMAIN classMap)
    /\ call.op = "transformCSS" =>
          /\ CSSWritesMap(NonExcludedKeys)
          /\ \A c \in DOMAIN classMap \ NonExcludedKeys : TokenKeptInCSS(c)
          /\ last.op = "extractFromCSS" => CSSWritesMap(classTokensOf(last.arg))

\* C19 witness: after an analyzeJS call and an extractFromCSS call,
\* transformCSS has written a generated name for a class of that stylesheet
C19_Witness ==
    /\ call.op = "transformCSS"
    /\ prev.op = "analyzeJS"
    /\ last.op = "extractFromCSS"
    /\ last.arg = call.arg
    /\ \E i \in 1..Len(call.arg) :
          /\ call.arg[i].type = "class"
          /\ call.ret[i].value = classMap[call.arg[i].value]
          /\ call.ret[i].value # call.arg[i].value

----------------------------------------------------------------------------
----------------------------------------------------------------------------
\* Vocabulary of the properties of allocation

\* generator output number index under the alphabet order of the instance
nameAt(index) == generate(nameGenerator, index)

\* C16: the loop of getNextName() passes only generator outputs that are
\* excluded and returns the first one at or after the cursor that is not; it
\* returns whenever there is one; when the exclusions match every generator
\* output it never returns, and it raises no error.
C16_AllocationTermination ==
    /\ [](call.op = "getNextName" =>
            /\ \A j \in call.arg..(currentIndex - 1) :
                  isExcluded(nameAt(j)) \/ (j = currentIndex - 1 /\ call.ret = nameAt(j))
            /\ call.ret # NoReturn =>
                  /\ call.ret = nameAt(currentIndex - 1)
                  /\ ~isExcluded(call.ret)
            /\ (\A j \in 0..MaxIndex : isExcluded(nameAt(j))) => call.ret = NoReturn)
    /\ [](( /\ InLoop
            /\ \E j \in currentIndex..(MaxIndex - 1) : ~isExcluded(nameAt(j)) )
          => <>(call.op = "getNextName" /\ call.ret # NoReturn))

\* C16 witness: the loop has passed more than one excluded generator output
\* and has returned the first one that is not excluded
C16_Witness ==
    /\ call.op = "getNextName"
    /\ call.ret # NoReturn
    /\ currentIndex - call.arg > 2
    /\ ~isExcluded(call.ret)

\* the alphabet the first character of a name is drawn from, in the order of
\* the instance
leadingAlphabet ==
    IF impl = "core" THEN nameGenerator.leadingChars ELSE nameGenerator.chars

Letters == Range(BASE54)
LettersAndUnderscore == Letters \cup {"_"}
IdentifierChars == Range(ALL_CHARS)

\* C17: under a fixed alphabet order, generate(index) is injective, its
\* output length does not decrease with the index, the indices below the
\* size L of the leading alphabet give the L one-character names and index L
\* gives a two-character name, the first character is a letter or an
\* underscore and every later one a letter, digit, underscore or hyphen;
\* getNextName() leaves the alphabet order as it is.
C17_GenerateBijection ==
    \A index \in 0..(currentIndex - 1) :
        LET name == nameAt(index)
            L == Len(leadingAlphabet)
        IN /\ Len(name) >= 1
           /\ name[1] \in LettersAndUnderscore
           /\ \A k \in 2..Len(name) : name[k] \in IdentifierChars
           /\ index < L => name = <<leadingAlphabet[index + 1]>>
           /\ index = L => Len(name) = 2
           /\ index = currentIndex - 1 =>
                 \A j \in 0..(index - 1) :
                     /\ nameAt(j) # name
                     /\ Len(nameAt(j)) <= Len(name)

\* C17 witness: the generator has given all one-character names and
\* two-character names after them, one of them with a digit or a hyphen
C17_Witness ==
    /\ currentIndex > Len(leadingAlphabet) + 1
    /\ Len(nameAt(currentIndex - 1)) = 2
    /\ impl = "core" => nameAt(currentIndex - 1)[2] \in Range(FOLLOWING_ONLY_CHARS)

\* C18 (as claimed): every name extractFromCSS gives to a non-excluded class
\* token consists of the letters a-z and A-Z only.
C18_LettersOnly ==
    (call.op = "getNextName" /\ call.ret # NoReturn) =>
        \A k \in 1..Len(call.ret) : call.ret[k] \in Letters

----------------------------------------------------------------------------
\* generateBundle: the calls of a run

\* the places of the calls of op in the log of the run
positions(op) == {i \in 1..Len(run.log) : run.log[i].op = op}

\* the run has left the extract phase
ExtractPhaseOver == run.phase \in {"transformCSS", "transformJS", "done"}

\* the order of the four loops, whatever the number of calls of each
PhaseOrder ==
    /\ \A a \in positions("analyzeJS"), e \in positions("extractFromCSS") : a < e
    /\ \A e \in positions("extractFromCSS"), t \in positions("transformCSS") : e < t
    /\ \A t \in positions("transformCSS"), j \in positions("transformJS") : t < j

\* C14 (as claimed): in every generateBundle run, every analyzeJS call comes
\* before the extract phase, extractFromCSS is called exactly once, every
\* transformCSS call comes after it and every transformJS call after all
\* transformCSS calls.
C14_PhaseSequence ==
    /\ PhaseOrder
    /\ ExtractPhaseOver => Cardinality(positions("extractFromCSS")) = 1

\* what does hold of a run: the order of the phases, with one extractFromCSS
\* call for each CSS asset
C14_PhaseOrderPerAsset ==
    /\ PhaseOrder
    /\ ExtractPhaseOver => Cardinality(positions("extractFromCSS")) = Len(run.cssAssets)

\* the run is at the analyzeJS call of a chunk that does not parse
AtParseFailure == run.phase = "analyzeJS" /\ parse(run.jsChunks[run.index]).threw

\* the run is over and has made every call of the three later phases
LaterPhasesRan ==
    /\ run.phase = "done"
    /\ Cardinality(positions("extractFromCSS")) = Len(run.cssAssets)
    /\ Cardinality(positions("transformCSS")) = Len(run.cssAssets)
    /\ Cardinality(positions("transformJS")) = Len(run.jsChunks)

\* C15 (as claimed): analyzeJS never raises to its caller: on a text that
\* cannot be parsed the call returns normally, the usage counts and the
\* dynamic prefixes are what they were before the call, and the later phases
\* still run.
C15_NeverRaises ==
    /\ [][AtParseFailure =>
            /\ ~run'.log[Len(run'.log)].threw
            /\ classUsageCount' = classUsageCount
            /\ dynamicPrefixes' = dynamicPrefixes]_vars
    /\ [](run.phase = "done" => LaterPhasesRan)

\* C15 (amended): on a text that cannot be parsed analyzeJS raises the parse
\* failure to its caller and leaves the usage counts and the dynamic prefixes
\* as they were before the call; generateBundle catches the failure, so the
\* run goes on with the next call and is not over before it has made every
\* call of the later phases.
C15_ParseFailureCaught ==
    /\ [][AtParseFailure =>
            /\ run'.log = Append(run.log, [op |-> "analyzeJS", threw |-> TRUE])
            /\ classUsageCount' = classUsageCount
            /\ dynamicPrefixes' = dynamicPrefixes
            /\ classMap' = classMap]_vars
    /\ [](run.phase = "done" => LaterPhasesRan)

\* a run is over in which analyzeJS counted one chunk and failed on another,
\* and a CSS asset was extracted
C15_Witness ==
    /\ LaterPhasesRan
    /\ \E i \in positions("analyzeJS") : run.log[i].threw
    /\ classUsageCount # EmptyMap
    /\ positions("extractFromCSS") # {}

----------------------------------------------------------------------------
\* analyzeJS: the contributions of two chunks

\* the texts of an item that analyzeJS splits into tokens
textsOf(item) ==
    CASE item.type = "StringLiteral" -> <<item.value>>
      [] item.type = "TemplateLiteral" -> item.quasis
      [] OTHER -> <<>>

\* the number of occurrences of a token in a sequence of texts
RECURSIVE countIn(_, _)
countIn(token, texts) ==
    IF texts = <<>> THEN 0
    ELSE LET classes == splitClasses(Head(texts))
         IN Cardinality({k \in 1..Len(classes) : classes[k] = token})
            + countIn(token, Tail(texts))

\* the number of occurrences of a token in the literals of a program
RECURSIVE occurrences(_, _)
occurrences(token, code) ==
    IF code = <<>> THEN 0
    ELSE countIn(token, textsOf(Head(code))) + occurrences(token, Tail(code))

\* the tokens of the literals of a program
tokensOf(code) ==
    UNION { UNION { Range(splitClasses(textsOf(code[i])[t])) :
                    t \in 1..Len(textsOf(code[i])) } :
            i \in 1..Len(code) }

\* the tokens before an interpolation that end in - or :, text by text
boundaryPrefixes(code) ==
    UNION { IF code[i].type # "TemplateLiteral" THEN {}
            ELSE UNION { { t \in Range(splitClasses(code[i].quasis[q])) :
                             endsWith(t, "-") \/ endsWith(t, ":") } :
                         q \in 1..(Len(code[i].quasis) - 1) } :
            i \in 1..Len(code) }

\* the fields analyzeJS writes, as they are and as they are at construction
UsageNow == [classUsageCount |-> classUsageCount, dynamicPrefixes |-> dynamicPrefixes]
NoUsage == [classUsageCount |-> EmptyMap, dynamicPrefixes |-> {}]

\* the mapping extractFromCSS(css) builds when the usage counts are usage
mappingWith(usage, css) ==
    assignNames(SortDescending(insertionOrder(cssClassValues(css), {}),
                               LAMBDA c : Get(usage, c, 0)),
                classMap, currentIndex,
                sortByFrequency(recordAll(reset, cssClassValues(css)))).classMap

\* analyzeJS(prev.arg) and then analyzeJS(last.arg) are the two analyzeJS
\* calls made on the instance
TwoChunksAnalyzed ==
    analyzeCalls = 2 /\ last.op = "analyzeJS" /\ prev.op = "analyzeJS"

\* C21: analyzeJS(A) then analyzeJS(B) leaves each token's count at the sum
\* of its occurrences in A and in B, and leaves the same counts and the same
\* dynamic prefixes as analyzeJS(B) then analyzeJS(A), so the mapping a
\* following extractFromCSS builds is the same for both orders; and from
\* every state the instance is in, two further chunks can be analyzed in
\* either order with the same result.
C21_AnalyzeAdditive ==
    /\ TwoChunksAnalyzed =>
          LET A == prev.arg
              B == last.arg
              other == analyzeItems(analyzeItems(NoUsage, B), A)
          IN /\ \A token \in DOMAIN classUsageCount :
                   classUsageCount[token] = occurrences(token, A) + occurrences(token, B)
             /\ DOMAIN classUsageCount = tokensOf(A) \cup tokensOf(B)
             /\ dynamicPrefixes =
                   IF impl = "plugin" THEN boundaryPrefixes(A) \cup boundaryPrefixes(B)
                   ELSE {}
             /\ other = UsageNow
             /\ \A css \in Stylesheets :
                   /\ mappingWith(classUsageCount, css) = extractFromCSS(css).classMap
                   /\ mappingWith(other.classUsageCount, css) = extractFromCSS(css).classMap
    /\ \A A, B \in Programs :
          analyzeItems(analyzeItems(UsageNow, A), B)
              = analyzeItems(analyzeItems(UsageNow, B), A)

\* two different chunks that share a token were analyzed, and the token's
\* count is the sum of its occurrences in the two
C21_Witness ==
    /\ TwoChunksAnalyzed
    /\ prev.arg # last.arg
    /\ \E token \in DOMAIN classUsageCount :
          /\ occurrences(token, prev.arg) > 0
          /\ occurrences(token, last.arg) > 0
          /\ classUsageCount[token] >= 3

====
